---- MODULE Spec2Model ----
(***************************************************************************)
(* Model of the FIFO transaction processor (class Queue and class          *)
(* FIFOTransactionProcessor).  Every public operation, the timer callback  *)
(* and the settlement of the in-flight execute() promise is one action;    *)
(* the methods they call are operators on a record holding the object      *)
(* fields, in the order in which the code runs them, with every            *)
(* notification appended to a log.                                         *)
(***************************************************************************)
EXTENDS Integers, Sequences, FiniteSets, TLC

\* ------------------------------------------------------------------ bounds
\* number of accepted submissions (ids generated) in one run
MaxSubmit == 3
\* the clock runs from 0 to MaxTime
MaxTime == 1

\* the options a processor may be constructed with (scaled milliseconds)
OptionChoices ==
    { [TransTimeoutPollingIntervalMS |-> 1, TransTimeoutMS |-> 0] }

\* the eviction scenario: its clock, its submissions and its options
EvMaxSubmit == 3
EvMaxTime == 13
EvOptionChoices ==
    { [TransTimeoutPollingIntervalMS |-> 13, TransTimeoutMS |-> 10] }

\* callers of the runs that are followed to their end
LiveMaxSubmit == 2
LiveMaxTime == 2

\* queues handed to the sweep: their length, the clock and the timeouts
SwMaxLen == 3
SwMaxTime == 2
SwOptionChoices ==
    { [TransTimeoutPollingIntervalMS |-> 1, TransTimeoutMS |-> t] : t \in 0..1 }

\* how the promise returned by execute() may settle
Outcomes == { [ok |-> TRUE, val |-> "result"], [ok |-> FALSE, val |-> "failure"] }

\* callers of the runs with payloads of any behaviour
PayMaxSubmit == 3

\* the same, and a promise rejected with the empty string
PayloadOutcomes == Outcomes \cup { [ok |-> FALSE, val |-> ""] }

\* the processor with two submissions, every operation of its interface
CoreMaxSubmit == 2
CoreMaxTime == 2

\* the processor with a listener of the application attached
ReMaxSubmit == 3
ReMaxTime == 1

\* ------------------------------------------------------------------- state
VARIABLES
    items,          \* Queue._items
    executing,      \* FIFOTransactionProcessor._executingTransaction
    queueOpen,      \* FIFOTransactionProcessor._queueOpen
    stopped,        \* FIFOTransactionProcessor._stopped
    timerArmed,     \* _timer holds a handle (inside the callback: the fired one)
    timerDue,       \* the time at which the pending timer is due
    options,        \* FIFOTransactionProcessor._options
    now,            \* new Date().getTime()
    nextId,         \* number of transaction ids generated so far
    inflight,       \* items whose execute() promise has not settled yet
    started,        \* ids in the order of their executing-transaction
    outcomes,       \* per id: its transaction-success / transaction-error, in order
    ended,          \* end() has been called
    pending         \* number of timers of the sweep pending in the runtime

vars == << items, executing, queueOpen, stopped, timerArmed, timerDue, options,
           now, nextId, inflight, started, outcomes, ended, pending >>

\* null for an item reference
NullItem == [Id |-> 0, EnqueueTime |-> 0, cb |-> FALSE]

\* the ids a run may generate, and the ids abort may be called with
Ids == 1..(IF MaxSubmit > EvMaxSubmit THEN MaxSubmit ELSE EvMaxSubmit)
AbortIds == 1..(MaxSubmit + 1)

\* no listener of the application is attached
NoReaction == [ev |-> "none", op |-> "none"]

\* the object fields as one record, with an empty log of notifications and,
\* in seen, what the listeners of each notification find: the queue, the
\* pending timers and the item in execution; throwing holds the ids
\* whose execute() throws instead of returning a promise (none here), thrown
\* says that an exception is on its way up the call stack; react is the
\* listener the application attached with once() (none here), fresh the id
\* generateTransactionId returns next, and calls the completion callbacks
\* invoked, each with the slot and the number of notifications at that time
State ==
    [ items |-> items, executing |-> executing, queueOpen |-> queueOpen,
      stopped |-> stopped, timerArmed |-> timerArmed, timerDue |-> timerDue,
      options |-> options, now |-> now, inflight |-> inflight,
      log |-> << >>, started |-> started, outcomes |-> outcomes,
      ended |-> ended, pending |-> pending,
      throwing |-> {}, thrown |-> FALSE, seen |-> << >>,
      react |-> NoReaction, fresh |-> nextId + 1, calls |-> << >> ]

\* the same with payloads whose execute() throws
StateThrowing(thr) == [State EXCEPT !.throwing = thr]

\* --------------------------------------------------------------- emitting
Event(src, ev, ids, err) == [src |-> src, ev |-> ev, ids |-> ids, err |-> err]

IdsOf(list) == [k \in 1..Len(list) |-> list[k].Id]

\* the state as a listener finds it
Found(s) == [items |-> IdsOf(s.items), pending |-> s.pending, slot |-> s.executing.Id]

\* FIFOTransactionProcessor.emit (v is s, evaluated once): the notification
\* is published and the listener attached to it, if any, runs (detached
\* first, as once() does)
emit(s, ev, ids, err) ==
    CHOOSE r \in
      { IF v.react.ev = ev THEN v.react.run[[v EXCEPT !.react = NoReaction]] ELSE v
        : v \in { [w EXCEPT !.log = Append(@, Event("processor", ev, ids, err)),
                            !.seen = Append(@, Found(w))] : w \in {s} } } : TRUE

\* Queue.emit
queueEmit(s, ev, ids) ==
    CHOOSE r \in { [v EXCEPT !.log = Append(@, Event("queue", ev, ids, "none")),
                             !.seen = Append(@, Found(v))] : v \in {s} } : TRUE

\* Queue.emit("change") and the processor's listener, which re-emits it
queueChange(s) ==
    emit(queueEmit(s, "change", << >>), "change", << >>, "none")

Busy(s) == s.executing # NullItem

\* ------------------------------------------------------- error / success
\* if (typeof CompletionCallback === "function") CompletionCallback(...)
call(s, item) ==
    IF item.cb
    THEN [s EXCEPT !.calls = Append(@, [id |-> item.Id, slot |-> s.executing.Id,
                                        at |-> Len(s.log)])]
    ELSE s

handleTransactionError(s, item, err) ==
    LET s1 == call(emit(s, "transaction-error", <<item.Id>>, err), item)
    IN  IF item.Id # 0
        THEN [s1 EXCEPT !.outcomes[item.Id] = Append(@,
                 [ev |-> "transaction-error", val |-> err, cb |-> item.cb])]
        ELSE s1

handleTransactionSuccess(s, item, result) ==
    LET s1 == call(emit(s, "transaction-success", <<item.Id>>, "none"), item)
    IN  [s1 EXCEPT !.outcomes[item.Id] = Append(@,
             [ev |-> "transaction-success", val |-> result, cb |-> item.cb])]

RECURSIVE handleAll(_, _, _, _)
\* for (let i in list) handleTransactionError(list[i]..., err)
handleAll(s, list, i, err) ==
    IF i > Len(list) THEN s
    ELSE handleAll(handleTransactionError(s, list[i], err), list, i + 1, err)

\* ------------------------------------------------------------------ Queue
\* dequeue taking the newest item instead of the oldest (pop for shift)
dequeue_Pop(s) ==
    IF Len(s.items) > 0
    THEN [item |-> s.items[Len(s.items)],
          s |-> queueChange([s EXCEPT !.items = SubSeq(@, 1, Len(@) - 1)])]
    ELSE [item |-> NullItem, s |-> s]

\* dequeue that returns the oldest item and leaves it in the queue
dequeue_Peek(s) ==
    IF Len(s.items) > 0
    THEN [item |-> s.items[1], s |-> queueChange(s)]
    ELSE [item |-> NullItem, s |-> s]

\* Queue.dequeue: the item (or null) and the state after it
dequeue(s) ==
    IF Len(s.items) > 0
    THEN [item |-> Head(s.items),
          s |-> queueChange([s EXCEPT !.items = Tail(@)])]
    ELSE [item |-> NullItem, s |-> s]

RECURSIVE executeTransactionIfNecessary(_)
RECURSIVE setExecutingTransaction(_, _)

setExecutingTransaction(s, value) ==
    IF s.executing # value
    THEN LET s1 == emit([s EXCEPT !.executing = value], "change", << >>, "none")
         IN  IF ~Busy(s1) THEN executeTransactionIfNecessary(s1) ELSE s1
    ELSE s

\* a dispatch attempt that does not look at Stopped
executeTransactionIfNecessary_NoStopped(s) ==
    IF ~Busy(s)
    THEN LET d == dequeue(s)
         IN  IF d.item # NullItem
             THEN LET s1 == setExecutingTransaction(d.s, d.item)
                      s2 == emit(s1, "executing-transaction", <<d.item.Id>>, "none")
                  IN  [s2 EXCEPT !.started = Append(@, d.item.Id),
                                 !.inflight = @ \cup {d.item}]
             ELSE d.s
    ELSE s

\* a dispatch attempt that does not look at Busy
executeTransactionIfNecessary_NoBusy(s) ==
    IF ~s.stopped
    THEN LET d == dequeue(s)
         IN  IF d.item # NullItem
             THEN LET s1 == setExecutingTransaction(d.s, d.item)
                      s2 == emit(s1, "executing-transaction", <<d.item.Id>>, "none")
                  IN  [s2 EXCEPT !.started = Append(@, d.item.Id),
                                 !.inflight = @ \cup {d.item}]
             ELSE d.s
    ELSE s

\* a call of execute() that throws leaves no promise behind and the
\* exception goes up to the caller
executeTransactionIfNecessary(s) ==
    IF ~Busy(s) /\ ~s.stopped
    THEN LET d == dequeue(s)
         IN  IF d.item # NullItem
             THEN LET s1 == setExecutingTransaction(d.s, d.item)
                      s2 == emit(s1, "executing-transaction", <<d.item.Id>>, "none")
                  IN  IF d.item.Id \in s.throwing
                      THEN [s2 EXCEPT !.started = Append(@, d.item.Id),
                                      !.thrown = TRUE]
                      ELSE [s2 EXCEPT !.started = Append(@, d.item.Id),
                                      !.inflight = @ \cup {d.item}]
             ELSE d.s
    ELSE s

\* enqueue putting the item at the head of the queue (unshift for push)
enqueue_Front(s, id, cb) ==
    LET item == [Id |-> id, EnqueueTime |-> s.now, cb |-> cb]
        s1 == queueEmit([s EXCEPT !.items = <<item>> \o @], "enqueue", <<id>>)
        s2 == emit(s1, "submitted", <<id>>, "none")
        s3 == executeTransactionIfNecessary(s2)
    IN  queueChange(s3)

\* enqueue whose listener publishes submitted and attempts no dispatch
enqueue_NoDispatch(s, id, cb) ==
    LET item == [Id |-> id, EnqueueTime |-> s.now, cb |-> cb]
        s1 == queueEmit([s EXCEPT !.items = Append(@, item)], "enqueue", <<id>>)
        s2 == emit(s1, "submitted", <<id>>, "none")
    IN  queueChange(s2)

\* Queue.enqueue, with the processor's "enqueue" listener
enqueue(s, id, cb) ==
    LET item == [Id |-> id, EnqueueTime |-> s.now, cb |-> cb]
        s1 == queueEmit([s EXCEPT !.items = Append(@, item)], "enqueue", <<id>>)
        s2 == emit(s1, "submitted", <<id>>, "none")
        s3 == executeTransactionIfNecessary(s2)
    IN  IF s3.thrown THEN s3 ELSE queueChange(s3)

RECURSIVE timeoutIndices_Prefix(_, _, _, _)
\* the scan that takes an item only if every item before it is taken too
timeoutIndices_Prefix(its, i, t, TransTimeoutMS) ==
    IF i < 1 THEN << >>
    ELSE IF \A j \in 1..i : t - its[j].EnqueueTime > TransTimeoutMS
         THEN <<i>> \o timeoutIndices_Prefix(its, i - 1, t, TransTimeoutMS)
         ELSE timeoutIndices_Prefix(its, i - 1, t, TransTimeoutMS)

RECURSIVE timeoutIndices(_, _, _, _)
\* the backward scan: indices (1-based) of the items that timed out
timeoutIndices(its, i, t, TransTimeoutMS) ==
    IF i < 1 THEN << >>
    ELSE IF t - its[i].EnqueueTime > TransTimeoutMS
         THEN <<i>> \o timeoutIndices(its, i - 1, t, TransTimeoutMS)
         ELSE timeoutIndices(its, i - 1, t, TransTimeoutMS)

\* Array.splice(index, 1)
splice(its, index) ==
    [k \in 1..(Len(its) - 1) |-> IF k < index THEN its[k] ELSE its[k + 1]]

RECURSIVE spliceLoop_Oldest(_, _, _, _)
\* the loop that puts each collected item in front of the ones collected so far
spliceLoop_Oldest(its, indices, k, timeoutItems) ==
    IF k > Len(indices) THEN [items |-> its, timeoutItems |-> timeoutItems]
    ELSE spliceLoop_Oldest(splice(its, indices[k]), indices, k + 1,
                           <<its[indices[k]]>> \o timeoutItems)

RECURSIVE spliceLoop(_, _, _, _)
\* the loop over indices: collects the items and splices them out
spliceLoop(its, indices, k, timeoutItems) ==
    IF k > Len(indices) THEN [items |-> its, timeoutItems |-> timeoutItems]
    ELSE spliceLoop(splice(its, indices[k]), indices, k + 1,
                    Append(timeoutItems, its[indices[k]]))

RECURSIVE notifyEach(_, _, _)
\* one transactions-timeout notification per item, published while the
\* later items are still being spliced out
notifyEach(s, indices, k) ==
    IF k > Len(indices) THEN s
    ELSE LET item == s.items[indices[k]]
             s1 == queueEmit(s, "transactions-timeout", <<item.Id>>)
             s2 == handleTransactionError(s1, item, "timeout")
         IN  notifyEach([s2 EXCEPT !.items = splice(@, indices[k])], indices, k + 1)

removeTimeoutTransactions_PerItem(s, TransTimeoutMS) ==
    IF Len(s.items) > 0
    THEN LET indices == timeoutIndices(s.items, Len(s.items), s.now, TransTimeoutMS)
         IN  IF Len(indices) > 0
             THEN queueChange(notifyEach(s, indices, 1))
             ELSE s
    ELSE s

\* the eviction whose listener reports the items as aborted
removeTimeoutTransactions_Aborted(s, TransTimeoutMS) ==
    IF Len(s.items) > 0
    THEN LET indices == timeoutIndices(s.items, Len(s.items), s.now, TransTimeoutMS)
         IN  IF Len(indices) > 0
             THEN LET r == spliceLoop(s.items, indices, 1, << >>)
                      s1 == queueEmit([s EXCEPT !.items = r.items],
                                      "transactions-timeout", IdsOf(r.timeoutItems))
                      s2 == handleAll(s1, r.timeoutItems, 1, "aborted")
                  IN  queueChange(s2)
             ELSE s
    ELSE s

\* Queue.removeTimeoutTransactions, with the "transactions-timeout" listener
removeTimeoutTransactions(s, TransTimeoutMS) ==
    IF Len(s.items) > 0
    THEN LET indices == timeoutIndices(s.items, Len(s.items), s.now, TransTimeoutMS)
         IN  IF Len(indices) > 0
             THEN LET r == spliceLoop(s.items, indices, 1, << >>)
                      s1 == queueEmit([s EXCEPT !.items = r.items],
                                      "transactions-timeout", IdsOf(r.timeoutItems))
                      s2 == handleAll(s1, r.timeoutItems, 1, "timeout")
                  IN  queueChange(s2)
             ELSE s
    ELSE s

\* flush whose listener starts at the second removed item
flush_SkipFirst(s) ==
    IF Len(s.items) > 0
    THEN LET removedItems == s.items
             s1 == queueEmit([s EXCEPT !.items = << >>],
                             "transactions-removed", IdsOf(removedItems))
             s2 == handleAll(s1, removedItems, 2, "aborted")
         IN  queueChange(s2)
    ELSE s

\* flush that reports the items as removed and leaves them in the queue
flush_KeepItems(s) ==
    IF Len(s.items) > 0
    THEN LET removedItems == s.items
             s1 == queueEmit(s, "transactions-removed", IdsOf(removedItems))
             s2 == handleAll(s1, removedItems, 1, "aborted")
         IN  queueChange(s2)
    ELSE s

\* flush that publishes the change of the queue before the removed items
flush_ChangeFirst(s) ==
    IF Len(s.items) > 0
    THEN LET removedItems == s.items
             s1 == queueChange([s EXCEPT !.items = << >>])
             s2 == queueEmit(s1, "transactions-removed", IdsOf(removedItems))
         IN  handleAll(s2, removedItems, 1, "aborted")
    ELSE s

\* Queue.flush, with the "transactions-removed" listener
flush(s) ==
    IF Len(s.items) > 0
    THEN LET removedItems == s.items
             s1 == queueEmit([s EXCEPT !.items = << >>],
                             "transactions-removed", IdsOf(removedItems))
             s2 == handleAll(s1, removedItems, 1, "aborted")
         IN  queueChange(s2)
    ELSE s

RECURSIVE removeFrom(_, _, _)
\* Queue.remove: the loop from index i on; the result and the state after it
removeFrom(s, TransactionId, i) ==
    IF i > Len(s.items) THEN [ret |-> FALSE, s |-> s]
    ELSE IF s.items[i].Id = TransactionId
         THEN LET item == s.items[i]
                  s1 == queueEmit([s EXCEPT !.items = splice(@, i)],
                                  "transactions-removed", <<item.Id>>)
                  s2 == handleAll(s1, <<item>>, 1, "aborted")
              IN  [ret |-> TRUE, s |-> queueChange(s2)]
         ELSE removeFrom(s, TransactionId, i + 1)

\* remove splicing out the head of the queue when it finds a match
remove_Head(s, TransactionId) ==
    IF \E i \in 1..Len(s.items) : s.items[i].Id = TransactionId
    THEN removeFrom(s, s.items[1].Id, 1)
    ELSE [ret |-> FALSE, s |-> s]

\* remove emitting change whether or not it found a match
remove_AlwaysChange(s, TransactionId) ==
    LET r == removeFrom(s, TransactionId, 1)
    IN  IF r.ret THEN r ELSE [ret |-> FALSE, s |-> queueChange(s)]

remove(s, TransactionId) == removeFrom(s, TransactionId, 1)

\* -------------------------------------------------------------- processor
abortAll(s) == flush(s)

\* abort that also looks for the id in the executing slot
abort_Executing(s, TransactionId) ==
    IF Busy(s) /\ s.executing.Id = TransactionId
    THEN [ret |-> TRUE,
          s |-> handleTransactionError([s EXCEPT !.executing = NullItem],
                                       s.executing, "aborted")]
    ELSE remove(s, TransactionId)

abort(s, TransactionId) == remove(s, TransactionId)

\* set Open, where closing also flushes the queue
setOpen_Flush(s, value) ==
    IF s.queueOpen # value
    THEN LET s1 == emit([s EXCEPT !.queueOpen = value], "change", << >>, "none")
         IN  IF value THEN s1 ELSE flush(s1)
    ELSE s

\* set Open
setOpen(s, value) ==
    IF s.queueOpen # value
    THEN emit([s EXCEPT !.queueOpen = value], "change", << >>, "none")
    ELSE s

\* the Stopped setter without the dispatch attempt on resume
setStopped_NoDispatch(s, value) ==
    IF s.stopped # value
    THEN emit([s EXCEPT !.stopped = value], "change", << >>, "none")
    ELSE s

\* set Stopped
setStopped(s, value) ==
    IF s.stopped # value
    THEN LET s1 == emit([s EXCEPT !.stopped = value], "change", << >>, "none")
         IN  IF ~s1.stopped THEN executeTransactionIfNecessary(s1) ELSE s1
    ELSE s

\* clearTimeout(this._timer): takes the timer out if it is still pending
clearTimeout(s) == [s EXCEPT !.pending = IF @ > 0 THEN @ - 1 ELSE 0]

\* this._timer = setTimeout(this.PollingTimeoutFunction, interval)
setTimeout(s) ==
    [s EXCEPT !.timerArmed = TRUE,
              !.timerDue = s.now + s.options.TransTimeoutPollingIntervalMS,
              !.pending = @ + 1]

\* the runtime takes the timer that is due out of its pending timers
fired(s) == [s EXCEPT !.pending = IF @ > 0 THEN @ - 1 ELSE 0]

\* end that leaves the timer pending
end_KeepTimer(s) == abortAll(setOpen(s, FALSE))

end(s) ==
    LET s1 == setOpen(s, FALSE)
        s2 == abortAll(s1)
    IN  IF s2.timerArmed
        THEN [clearTimeout(s2) EXCEPT !.timerArmed = FALSE, !.timerDue = 0]
        ELSE s2

\* the timer callback passing the polling interval where the timeout belongs
PollingTimeoutFunction_Interval(s) ==
    LET s1 == emit(fired(s), "polling-transactions", << >>, "none")
        s2 == removeTimeoutTransactions(s1, s1.options.TransTimeoutPollingIntervalMS)
    IN  setTimeout(s2)

\* the timer callback that does not schedule its next run
PollingTimeoutFunction_NoRearm(s) ==
    LET s1 == emit(fired(s), "polling-transactions", << >>, "none")
        s2 == removeTimeoutTransactions(s1, s1.options.TransTimeoutMS)
    IN  [s2 EXCEPT !.timerArmed = FALSE, !.timerDue = 0]

\* the timer callback that leaves the queue alone while dequeuing is paused
PollingTimeoutFunction_Paused(s) ==
    LET s1 == emit(fired(s), "polling-transactions", << >>, "none")
        s2 == IF s1.stopped THEN s1
              ELSE removeTimeoutTransactions(s1, s1.options.TransTimeoutMS)
    IN  setTimeout(s2)

\* the timer callback that schedules its next run on entry and on exit
PollingTimeoutFunction_Twice(s) ==
    LET s1 == emit(setTimeout(fired(s)), "polling-transactions", << >>, "none")
        s2 == removeTimeoutTransactions(s1, s1.options.TransTimeoutMS)
    IN  setTimeout(s2)

\* the timer callback, run by the runtime when the timer is due
PollingTimeoutFunction(s) ==
    LET s1 == emit(fired(s), "polling-transactions", << >>, "none")
        s2 == removeTimeoutTransactions(s1, s1.options.TransTimeoutMS)
    IN  setTimeout(s2)

\* submit that does not look at Open
submit_NoCheck(s, TransactionId) ==
    [ret |-> "resolved", s |-> enqueue(s, TransactionId, FALSE)]

\* submit(Transaction), with TransactionId the id generateTransactionId returns:
\* what the promise settles to at once, and the state after the call
submit(s, TransactionId) ==
    IF s.queueOpen
    THEN LET s1 == enqueue(s, TransactionId, FALSE)
         IN  [ret |-> IF s1.thrown THEN "thrown" ELSE "resolved", s |-> s1]
    ELSE [ret |-> "forbidden", s |-> handleTransactionError(s, NullItem, "forbidden")]

\* transact(Transaction): the promise stays pending until the callback is invoked
transact(s, TransactionId) ==
    IF s.queueOpen
    THEN LET s1 == enqueue(s, TransactionId, TRUE)
         IN  [ret |-> IF s1.thrown THEN "thrown" ELSE "pending", s |-> s1]
    ELSE [ret |-> "forbidden", s |-> handleTransactionError(s, NullItem, "forbidden")]

\* if (err): the values that count as no error; "null" stands for null
Falsy(v) == v \in {"", "null"}

\* the completion callback transact hands to the queue: what it does to the
\* promise transact returned
CompletionCallback(err, result) ==
    IF ~Falsy(err) THEN [state |-> "rejected", val |-> err]
    ELSE [state |-> "resolved", val |-> result]

\* the callback as handleTransactionError / handleTransactionSuccess invoke it
\* for the published outcome o
TransactResult(o) ==
    IF o.ev = "transaction-error" THEN CompletionCallback(o.val, "null")
    ELSE CompletionCallback("null", o.val)

\* the catch handler without its setExecutingTransaction(null)
catch_KeepSlot(s, item, err) == handleTransactionError(s, item, err)

\* the catch handler of the promise chain of execute()
catch(s, item, err) ==
    setExecutingTransaction(handleTransactionError(s, item, err), NullItem)

\* the then handler that empties the slot before it reports the success
then_ClearFirst(s, item, result) ==
    handleTransactionSuccess(setExecutingTransaction(s, NullItem), item, result)

\* the then handler of the promise returned by execute()
then(s, item, result) ==
    setExecutingTransaction(handleTransactionSuccess(s, item, result), NullItem)

\* the promise returned by execute() settles: then(...).catch(...), where the
\* catch handler also receives what the then handler throws
settle(s, item, outcome) ==
    LET s0 == [s EXCEPT !.inflight = @ \ {item}]
    IN  IF outcome.ok
        THEN LET s1 == then(s0, item, outcome.val)
             IN  IF s1.thrown
                 THEN catch([s1 EXCEPT !.thrown = FALSE], item, "thrown")
                 ELSE s1
        ELSE catch(s0, item, outcome.val)

\* ---------------------------------------------------------------- actions
\* the fields of the resulting record r become the new state
Commit(s) ==
    \E r \in {s} :
       /\ items' = r.items
       /\ executing' = r.executing
       /\ queueOpen' = r.queueOpen
       /\ stopped' = r.stopped
       /\ timerArmed' = r.timerArmed
       /\ timerDue' = r.timerDue
       /\ inflight' = r.inflight
       /\ started' = r.started
       /\ outcomes' = r.outcomes
       /\ ended' = r.ended
       /\ pending' = r.pending
       /\ UNCHANGED << options, now >>

\* the state after construction, with the given options
InitWith(opts) ==
    /\ items = << >>
    /\ executing = NullItem
    /\ queueOpen = TRUE
    /\ stopped = FALSE
    /\ options = opts
    /\ timerArmed = TRUE
    /\ timerDue = opts.TransTimeoutPollingIntervalMS
    /\ now = 0
    /\ nextId = 0
    /\ inflight = {}
    /\ started = << >>
    /\ outcomes = [id \in Ids |-> << >>]
    /\ ended = FALSE
    /\ pending = 1

Init == \E opts \in OptionChoices : InitWith(opts)

\* a call of submit; an accepted one generates the next id
SubmitUpTo(max) ==
    /\ queueOpen => nextId < max
    /\ nextId' = IF queueOpen THEN nextId + 1 ELSE nextId
    /\ Commit(submit(State, nextId + 1).s)

\* a call of transact
TransactUpTo(max) ==
    /\ queueOpen => nextId < max
    /\ nextId' = IF queueOpen THEN nextId + 1 ELSE nextId
    /\ Commit(transact(State, nextId + 1).s)

Submit == SubmitUpTo(MaxSubmit)

Transact == TransactUpTo(MaxSubmit)

Abort(id) ==
    /\ Commit(abort(State, id).s)
    /\ UNCHANGED nextId

AbortAll ==
    /\ Commit(abortAll(State))
    /\ UNCHANGED nextId

End ==
    /\ Commit([end(State) EXCEPT !.ended = TRUE])
    /\ UNCHANGED nextId

SetOpen(value) ==
    /\ Commit(setOpen(State, value))
    /\ UNCHANGED nextId

SetStopped(value) ==
    /\ Commit(setStopped(State, value))
    /\ UNCHANGED nextId

\* the pending timer fires, at or after the time it is due
Sweep ==
    /\ timerArmed
    /\ now >= timerDue
    /\ Commit(PollingTimeoutFunction(State))
    /\ UNCHANGED nextId

\* the promise of an execute() call settles
Settle(item, outcome) ==
    /\ item \in inflight
    /\ Commit(settle(State, item, outcome))
    /\ UNCHANGED nextId

\* time passes
TickUpTo(max) ==
    /\ now < max
    /\ now' = now + 1
    /\ UNCHANGED << items, executing, queueOpen, stopped, timerArmed, timerDue,
                    options, nextId, inflight, started, outcomes, ended, pending >>

Tick == TickUpTo(MaxTime)

Next ==
    \/ Submit
    \/ Transact
    \/ \E id \in AbortIds : Abort(id)
    \/ AbortAll
    \/ End
    \/ \E value \in BOOLEAN : SetOpen(value)
    \/ \E value \in BOOLEAN : SetStopped(value)
    \/ Sweep
    \/ \E item \in inflight, outcome \in Outcomes : Settle(item, outcome)
    \/ Tick

Spec == Init /\ [][Next]_vars

\* The eviction scenario: a processor with a timeout of 10 whose callers pause
\* it, submit, and let the clock run to 13 while the timer fires.
InitEviction == \E opts \in EvOptionChoices : InitWith(opts)

EvSubmit == SubmitUpTo(EvMaxSubmit)

EvTransact == TransactUpTo(EvMaxSubmit)

EvTick == TickUpTo(EvMaxTime)

NextEviction ==
    \/ EvSubmit
    \/ EvTransact
    \/ SetStopped(TRUE)
    \/ Sweep
    \/ \E item \in inflight, outcome \in Outcomes : Settle(item, outcome)
    \/ EvTick

SpecEviction == InitEviction /\ [][NextEviction]_vars

\* Runs followed to their end: submissions stop while the clock still has
\* room for the last item to outlive the timeout, a due timer fires, time
\* passes, and every promise returned by execute() settles.  The callers
\* submit, pause and resume, close and open the intake, and shut down; the
\* calls that only take items out of the queue are left to Spec.
LiveSubmit ==
    /\ queueOpen => now + options.TransTimeoutMS < LiveMaxTime
    /\ SubmitUpTo(LiveMaxSubmit)

LiveTick == TickUpTo(LiveMaxTime)

SettleSome == \E item \in inflight, outcome \in Outcomes : Settle(item, outcome)

NextLive ==
    \/ LiveSubmit
    \/ End
    \/ \E value \in BOOLEAN : SetOpen(value)
    \/ \E value \in BOOLEAN : SetStopped(value)
    \/ Sweep
    \/ SettleSome
    \/ LiveTick

Fairness == WF_vars(Sweep) /\ WF_vars(LiveTick) /\ WF_vars(SettleSome)

SpecLive == Init /\ [][NextLive]_vars /\ Fairness

\* The sweep on any queue.  EnqueueTime is the wall clock (new Date()) at
\* enqueue, and the wall clock can be set back or forth between two calls,
\* so the times of a queue need not ascend and may lie after now.  The
\* processor is paused, which keeps the items queued.
InitSweep ==
    \E n \in 0..SwMaxLen, t \in 0..SwMaxTime, opts \in SwOptionChoices :
       \E times \in [1..n -> 0..SwMaxTime] :
          /\ items = [k \in 1..n |-> [Id |-> k, EnqueueTime |-> times[k], cb |-> FALSE]]
          /\ executing = NullItem
          /\ queueOpen = TRUE
          /\ stopped = TRUE
          /\ options = opts
          /\ timerArmed = TRUE
          /\ timerDue = opts.TransTimeoutPollingIntervalMS
          /\ now = t
          /\ nextId = n
          /\ inflight = {}
          /\ started = << >>
          /\ outcomes = [id \in Ids |-> << >>]
          /\ ended = FALSE
          /\ pending = 1

SwTick == TickUpTo(SwMaxTime)

NextSweep == Sweep \/ SwTick

SpecSweep == InitSweep /\ [][NextSweep]_vars

\* Payloads of any behaviour: execute() may throw instead of returning a
\* promise, and its promise may be rejected with an empty value.  Whether a
\* payload throws shows when execute() is called, once per item.
PayIds == 1..PayMaxSubmit

PaySubmit ==
    \E thr \in SUBSET PayIds :
       /\ nextId < PayMaxSubmit
       /\ nextId' = nextId + 1
       /\ Commit(submit(StateThrowing(thr), nextId + 1).s)

PayTransact ==
    \E thr \in SUBSET PayIds :
       /\ nextId < PayMaxSubmit
       /\ nextId' = nextId + 1
       /\ Commit(transact(StateThrowing(thr), nextId + 1).s)

PaySetStopped(value) ==
    \E thr \in SUBSET PayIds :
       /\ Commit(setStopped(StateThrowing(thr), value))
       /\ UNCHANGED nextId

PaySettle(item, outcome) ==
    \E thr \in SUBSET PayIds :
       /\ item \in inflight
       /\ Commit(settle(StateThrowing(thr), item, outcome))
       /\ UNCHANGED nextId

NextPayload ==
    \/ PaySubmit
    \/ PayTransact
    \/ \E value \in BOOLEAN : PaySetStopped(value)
    \/ \E item \in inflight, outcome \in PayloadOutcomes : PaySettle(item, outcome)

SpecPayload == Init /\ [][NextPayload]_vars

\* ------------------------------------- payloads of any behaviour, with time
\* The processor is never shut down: its timer fires whenever it is due, time
\* passes and every pending promise settles.  A submission is accepted only
\* while the item can still outlive the timeout before the clock's bound.
PlSubmit ==
    \E thr \in SUBSET PayIds :
       /\ nextId < LiveMaxSubmit
       /\ now + options.TransTimeoutMS < LiveMaxTime
       /\ nextId' = nextId + 1
       /\ Commit(submit(StateThrowing(thr), nextId + 1).s)

PlTransact ==
    \E thr \in SUBSET PayIds :
       /\ nextId < LiveMaxSubmit
       /\ now + options.TransTimeoutMS < LiveMaxTime
       /\ nextId' = nextId + 1
       /\ Commit(transact(StateThrowing(thr), nextId + 1).s)

PlSettleSome ==
    \E item \in inflight, outcome \in PayloadOutcomes : PaySettle(item, outcome)

NextPayloadLive ==
    \/ PlSubmit
    \/ PlTransact
    \/ \E value \in BOOLEAN : PaySetStopped(value)
    \/ Sweep
    \/ PlSettleSome
    \/ LiveTick

PayloadFairness == WF_vars(Sweep) /\ WF_vars(LiveTick) /\ WF_vars(PlSettleSome)

SpecPayloadLive == Init /\ [][NextPayloadLive]_vars /\ PayloadFairness

\* ------------------------------------------------ a processor, two submissions
CoreSubmit == SubmitUpTo(CoreMaxSubmit)

CoreTransact == TransactUpTo(CoreMaxSubmit)

CoreTick == TickUpTo(CoreMaxTime)

NextCore ==
    \/ CoreSubmit
    \/ CoreTransact
    \/ \E id \in 1..(CoreMaxSubmit + 1) : Abort(id)
    \/ AbortAll
    \/ End
    \/ \E value \in BOOLEAN : SetOpen(value)
    \/ \E value \in BOOLEAN : SetStopped(value)
    \/ Sweep
    \/ \E item \in inflight, outcome \in Outcomes : Settle(item, outcome)
    \/ CoreTick

SpecCore == Init /\ [][NextCore]_vars

\* --------------------------------------- a processor and a listener of its events
\* the notifications of the processor an application can listen to
Notifications ==
    { "submitted", "change", "polling-transactions", "executing-transaction",
      "transaction-success", "transaction-error" }

\* what the listener calls: submit, transact, Stopped = false, end()
ListenerCalls == { "submit", "transact", "resume", "end" }

\* no listener, or one attached with once() to one notification
Reactions == {NoReaction} \cup [ev : Notifications, op : ListenerCalls]

\* the values of the fields, for the argument of a listener
Items == [Id : Nat, EnqueueTime : Nat, cb : BOOLEAN]

Records ==
    [ items : Seq(Items), executing : Items, queueOpen : BOOLEAN, stopped : BOOLEAN,
      timerArmed : BOOLEAN, timerDue : Nat,
      options : [TransTimeoutPollingIntervalMS : Nat, TransTimeoutMS : Nat],
      now : Nat, inflight : SUBSET Items,
      log : Seq([src : STRING, ev : STRING, ids : Seq(Nat), err : STRING]),
      started : Seq(Nat),
      outcomes : [Ids -> Seq([ev : STRING, val : STRING, cb : BOOLEAN])],
      ended : BOOLEAN, pending : Nat, throwing : SUBSET Nat, thrown : BOOLEAN,
      seen : Seq([items : Seq(Nat), pending : Nat, slot : Nat]),
      react : {NoReaction}, fresh : Nat,
      calls : Seq([id : Nat, slot : Nat, at : Nat]) ]

\* the body of a listener: one call into the processor, made in the state t
\* in which the notification finds it
listener(op) ==
    [t \in Records |->
        CASE op = "submit" ->
               IF t.queueOpen THEN submit([t EXCEPT !.fresh = @ + 1], t.fresh).s
               ELSE submit(t, 0).s
          [] op = "transact" ->
               IF t.queueOpen THEN transact([t EXCEPT !.fresh = @ + 1], t.fresh).s
               ELSE transact(t, 0).s
          [] op = "resume" -> setStopped(t, FALSE)
          [] op = "end" -> [end(t) EXCEPT !.ended = TRUE]
          [] OTHER -> t]

\* the processor with the listener attached
Listening(rc) ==
    IF rc = NoReaction THEN State
    ELSE [State EXCEPT !.react = [ev |-> rc.ev, op |-> rc.op, run |-> listener(rc.op)]]

\* the ids left suffice for the caller's submission and the listener's
Room(rc, own) == nextId + own + (IF rc.op \in {"submit", "transact"} THEN 1 ELSE 0) <= ReMaxSubmit

\* the fields after the operation, with the ids that were generated
CommitAll(s) == \E r \in {s} : Commit(r) /\ nextId' = r.fresh - 1

ReSubmit ==
    \E rc \in Reactions :
       /\ Room(rc, 1)
       /\ CommitAll(submit([Listening(rc) EXCEPT !.fresh = IF queueOpen THEN @ + 1 ELSE @],
                           nextId + 1).s)

ReTransact ==
    \E rc \in Reactions :
       /\ Room(rc, 1)
       /\ CommitAll(transact([Listening(rc) EXCEPT !.fresh = IF queueOpen THEN @ + 1 ELSE @],
                             nextId + 1).s)

ReSetStopped(value) ==
    \E rc \in Reactions :
       /\ Room(rc, 0)
       /\ CommitAll(setStopped(Listening(rc), value))

ReEnd ==
    \E rc \in Reactions :
       /\ Room(rc, 0)
       /\ CommitAll([end(Listening(rc)) EXCEPT !.ended = TRUE])

ReSweep ==
    \E rc \in Reactions :
       /\ Room(rc, 0)
       /\ pending > 0
       /\ now >= timerDue
       /\ CommitAll(PollingTimeoutFunction(Listening(rc)))

ReSettle(item, outcome) ==
    \E rc \in Reactions :
       /\ Room(rc, 0)
       /\ item \in inflight
       /\ CommitAll(settle(Listening(rc), item, outcome))

ReTick == TickUpTo(ReMaxTime)

NextReentrant ==
    \/ ReSubmit
    \/ ReTransact
    \/ \E value \in BOOLEAN : ReSetStopped(value)
    \/ ReEnd
    \/ ReSweep
    \/ \E item \in inflight, outcome \in Outcomes : ReSettle(item, outcome)
    \/ ReTick

SpecReentrant == Init /\ [][NextReentrant]_vars

\* ------------------------- a processor and a listener of its settlement events
\* no listener, or one attached with once() to transaction-success or
\* transaction-error that submits an item
SettlementReactions ==
    {NoReaction} \cup [ev : {"transaction-success", "transaction-error"},
                       op : {"submit", "transact"}]

StSubmit ==
    /\ Room(NoReaction, 1)
    /\ CommitAll(submit([State EXCEPT !.fresh = IF queueOpen THEN @ + 1 ELSE @],
                        nextId + 1).s)

StTransact ==
    /\ Room(NoReaction, 1)
    /\ CommitAll(transact([State EXCEPT !.fresh = IF queueOpen THEN @ + 1 ELSE @],
                          nextId + 1).s)

StSettle(item, outcome) ==
    \E rc \in SettlementReactions :
       /\ Room(rc, 0)
       /\ item \in inflight
       /\ CommitAll(settle(Listening(rc), item, outcome))

NextSettlement ==
    \/ StSubmit
    \/ StTransact
    \/ \E value \in BOOLEAN : SetOpen(value)
    \/ \E value \in BOOLEAN : SetStopped(value)
    \/ \E item \in inflight, outcome \in Outcomes : StSettle(item, outcome)

SpecSettlement == Init /\ [][NextSettlement]_vars

\* ----------------------------------------------------------------- claims
Queued(id) == \E i \in 1..Len(items) : items[i].Id = id

StartedIds == {started[i] : i \in 1..Len(started)}

\* id was taken out of the queue by a sweep, abort, abortAll or end
Removed(id) ==
    \E k \in 1..Len(outcomes[id]) : outcomes[id][k].val \in {"timeout", "aborted"}

\* the execution of id has settled
Settled(id) ==
    \E k \in 1..Len(outcomes[id]) : outcomes[id][k].val \in {"result", "failure"}

\* C1: at most one execute() promise is pending at any instant, it is the one
\* of the item in the executing slot, and every item that began executing
\* before the latest one has had its success/error notification.
C1_Serialization ==
    /\ Cardinality(inflight) <= 1
    /\ inflight = IF executing = NullItem THEN {} ELSE {executing}
    /\ \A i \in 1..Len(started) : i < Len(started) => Settled(started[i])
    /\ Len(started) > 0 =>
          (Settled(started[Len(started)]) <=> inflight = {})

\* a second item is executing, the first having settled, with an item waiting
C1_Witness ==
    /\ Len(started) >= 2
    /\ Cardinality(inflight) = 1
    /\ items # << >>
    /\ ~stopped

\* C2: when no item was aborted or evicted, the i-th item to begin executing
\* is the i-th item submitted (ids are generated in submission order).
C2_FIFO ==
    (\A id \in Ids : ~Removed(id)) =>
        \A i \in 1..Len(started) : started[i] = i

\* all submissions have begun executing, none removed
C2_Witness ==
    /\ Len(started) = MaxSubmit
    /\ \A id \in Ids : ~Removed(id)

\* C3: whatever was removed in between, items begin executing in the order
\* in which they were submitted.
C3_FIFOSurvivors ==
    \A i, j \in 1..Len(started) : i < j => started[i] < started[j]

\* two items began executing, and an item submitted between them was removed
C3_Witness ==
    \E i, j \in 1..Len(started) :
        /\ i < j
        /\ \E id \in Ids : started[i] < id /\ id < started[j] /\ Removed(id)

\* the notifications named ev that src emitted, in order
Emitted(lg, src, ev) == SelectSeq(lg, LAMBDA e : e.src = src /\ e.ev = ev)

ClearLog(s) ==
    [s EXCEPT !.log = << >>, !.seen = << >>, !.calls = << >>]

\* what handleTransactionError leaves for an item: the notification, and the
\* completion callback invoked with the error iff the item has one
ErrorOutcome(item, err) == [ev |-> "transaction-error", val |-> err, cb |-> item.cb]

\* C4: while Open is false, submit and transact fail with forbidden, publish
\* one transaction-error carrying it, and change nothing else: queue,
\* executing slot, Stopped, pending executions and every item's history.
C4_ClosedIntake ==
    ~queueOpen =>
        \A r \in {submit(State, nextId + 1), transact(State, nextId + 1)} :
            /\ r.ret = "forbidden"
            /\ r.s.log = << Event("processor", "transaction-error", <<0>>, "forbidden") >>
            /\ ClearLog(r.s) = State

\* intake is closed (not by end) with an item executing and items waiting
C4_Witness ==
    /\ ~queueOpen
    /\ timerArmed
    /\ executing # NullItem
    /\ items # << >>

\* items enqueued at 0, 5 and 12, a timeout of 10, and the clock at 13
C5_Scenario ==
    /\ options.TransTimeoutMS = 10
    /\ now = 13
    /\ Len(items) = 3
    /\ items[1].EnqueueTime = 0
    /\ items[2].EnqueueTime = 5
    /\ items[3].EnqueueTime = 12

\* C5 as stated: the sweep at 13 evicts the items enqueued at 0 and at 5,
\* each failing with timeout, leaves the one enqueued at 12, and publishes
\* one batched notification.
C5_Original ==
    C5_Scenario =>
        LET s == PollingTimeoutFunction(State)
        IN  /\ s.items = << items[3] >>
            /\ Len(Emitted(s.log, "queue", "transactions-timeout")) = 1
            /\ \A i \in 1..2 :
                 s.outcomes[items[i].Id] =
                     Append(outcomes[items[i].Id], ErrorOutcome(items[i], "timeout"))

\* C5 (amended): the sweep at 13 evicts exactly the item enqueued at 0, which
\* fails with timeout; the items enqueued at 5 and 12 remain queued in order;
\* one transactions-timeout notification is published, naming that item, and
\* one change.
C5_Eviction ==
    C5_Scenario =>
        LET s == PollingTimeoutFunction(State)
        IN  /\ s.items = << items[2], items[3] >>
            /\ Emitted(s.log, "queue", "transactions-timeout") =
                 << Event("queue", "transactions-timeout", << items[1].Id >>, "none") >>
            /\ Emitted(s.log, "processor", "transaction-error") =
                 << Event("processor", "transaction-error", << items[1].Id >>, "timeout") >>
            /\ Len(Emitted(s.log, "queue", "change")) = 1
            /\ s.outcomes = [outcomes EXCEPT ![items[1].Id] =
                                 Append(@, ErrorOutcome(items[1], "timeout"))]
            /\ s.executing = executing

\* the sweep at 13 has run: the first item timed out, two items enqueued at 5
\* and 12 are still queued, and the timer is armed again
C5_Witness ==
    /\ options.TransTimeoutMS = 10
    /\ now = 13
    /\ timerArmed /\ timerDue = 13 + options.TransTimeoutPollingIntervalMS
    /\ Len(items) = 2
    /\ items[1].EnqueueTime = 5
    /\ items[2].EnqueueTime = 12
    /\ \E id \in Ids :
         /\ id < items[1].Id
         /\ outcomes[id] \in { << [ev |-> "transaction-error", val |-> "timeout", cb |-> c] >> :
                               c \in BOOLEAN }

\* C6: abort(id) of a queued item returns true, takes exactly that item out
\* of the queue (the others keep their order), publishes one transaction-error
\* with aborted for it and invokes its completion callback, if any, with
\* aborted; executing slot and dispatch history are untouched, and an item so
\* removed has never begun executing and is not queued again.
C6_AbortQueued ==
    /\ \A i \in 1..Len(items) :
         LET r == abort(State, items[i].Id)
         IN  /\ r.ret = TRUE
             /\ r.s.items = SubSeq(items, 1, i - 1) \o SubSeq(items, i + 1, Len(items))
             /\ Emitted(r.s.log, "processor", "transaction-error") =
                  << Event("processor", "transaction-error", << items[i].Id >>, "aborted") >>
             /\ r.s.outcomes = [outcomes EXCEPT ![items[i].Id] =
                                    Append(@, ErrorOutcome(items[i], "aborted"))]
             /\ r.s.executing = executing
             /\ r.s.started = started
             /\ r.s.inflight = inflight
    /\ \A id \in Ids :
         (\E k \in 1..Len(outcomes[id]) : outcomes[id][k].val = "aborted") =>
             id \notin StartedIds /\ ~Queued(id)

\* item 2 alone was aborted: items 1 and 3, queued around it, are still queued
C6_Witness ==
    /\ Len(items) = 2
    /\ items[1].Id = 1
    /\ items[2].Id = 3
    /\ \E c \in BOOLEAN :
         outcomes[2] = << [ev |-> "transaction-error", val |-> "aborted", cb |-> c] >>

\* C7: abort(id) of an id that is not queued - never generated, executing,
\* settled, evicted or aborted - returns false, changes nothing and publishes
\* nothing.
C7_AbortAbsent ==
    \A id \in AbortIds :
        ~Queued(id) =>
            LET r == abort(State, id)
            IN  /\ r.ret = FALSE
                /\ r.s = State

\* there is a settled id, a removed id, an id never generated, and a queue
\* that is not empty
C7_Witness ==
    /\ \E id \in Ids : Settled(id)
    /\ \E id \in Ids : Removed(id)
    /\ nextId < MaxSubmit + 1
    /\ items # << >>

\* C8: while Stopped is and stays true no step begins an execution, whatever
\* the step is; and a submit or transact made while Stopped (and Open) is
\* accepted and appended to the queue without being dispatched.
C8_StoppedPause ==
    /\ [][ (stopped /\ stopped') =>
             /\ started' = started
             /\ inflight' \subseteq inflight
             /\ executing' \in {executing, NullItem} ]_vars
    /\ [] ( (stopped /\ queueOpen) =>
             \A c \in BOOLEAN :
                 LET r == IF c THEN transact(State, nextId + 1)
                               ELSE submit(State, nextId + 1)
                 IN  /\ r.ret # "forbidden"
                     /\ r.s.items = Append(items, [Id |-> nextId + 1,
                                                   EnqueueTime |-> now, cb |-> c])
                     /\ r.s.started = started
                     /\ r.s.executing = executing
                     /\ Emitted(r.s.log, "processor", "executing-transaction") = << >> )

\* stopped and idle with items waiting, after an execution has settled
C8_Witness ==
    /\ stopped
    /\ executing = NullItem
    /\ items # << >>
    /\ \E id \in Ids : Settled(id)

\* C9: setting Stopped to false while the queue is not empty and nothing is
\* executing begins the execution of the head item before the setter returns
\* and leaves the other items queued in order; from then on each settlement
\* begins the execution of the item at the head.
C9_StoppedResume ==
    /\ (stopped /\ items # << >> /\ executing = NullItem) =>
          LET s == setStopped(State, FALSE)
          IN  /\ ~s.stopped
              /\ s.executing = Head(items)
              /\ s.inflight = {Head(items)}
              /\ s.items = Tail(items)
              /\ s.started = Append(started, Head(items).Id)
              /\ Emitted(s.log, "processor", "executing-transaction") =
                   << Event("processor", "executing-transaction",
                            << Head(items).Id >>, "none") >>
    /\ (~stopped /\ items # << >>) =>
          \A item \in inflight, outcome \in Outcomes :
              LET s == settle(State, item, outcome)
              IN  /\ s.executing = Head(items)
                  /\ s.items = Tail(items)
                  /\ s.started = Append(started, Head(items).Id)

\* stopped and idle with two items accumulated: the state the setter resumes
C9_Witness ==
    /\ stopped
    /\ executing = NullItem
    /\ Len(items) >= 2
    /\ queueOpen

\* C10: end() leaves Open false, the queue empty with every item that was
\* queued failed with aborted, and no timer pending, and does not touch the
\* executing slot; a second end() changes nothing and publishes nothing.
C10_Shutdown ==
    LET s1 == end(State)
        s2 == end(ClearLog(s1))
    IN  /\ ~s1.queueOpen
        /\ s1.items = << >>
        /\ ~s1.timerArmed
        /\ s1.executing = executing
        /\ s1.outcomes =
             [id \in Ids |->
                 IF Queued(id)
                 THEN Append(outcomes[id],
                             ErrorOutcome(CHOOSE it \in {items[i] : i \in 1..Len(items)} :
                                              it.Id = id, "aborted"))
                 ELSE outcomes[id]]
        /\ s2 = ClearLog(s1)

\* end() has run on a queue of two items while a third item was executing
C10_Witness ==
    /\ ~queueOpen
    /\ ~timerArmed
    /\ items = << >>
    /\ executing # NullItem
    /\ Cardinality({id \in Ids : \E k \in 1..Len(outcomes[id]) :
                                     outcomes[id][k].val = "aborted"}) = 2

\* C11: once end() has been called the sweep timer is never pending again,
\* so the timer callback cannot run: no step after end() publishes
\* polling-transactions (which would re-arm the timer) and no step after
\* end() evicts an item with a timeout error, however old the item is.
C11_NoSweepAfterEnd ==
    /\ [](ended => ~timerArmed)
    /\ [][ended =>
            /\ ~timerArmed'
            /\ \A id \in Ids :
                   \A k \in 1..Len(outcomes'[id]) :
                      outcomes'[id][k].val = "timeout" =>
                         /\ k <= Len(outcomes[id])
                         /\ outcomes[id][k].val = "timeout"]_vars

\* after end() the intake was re-opened and an item has stayed queued past
\* the timeout, at a time at which the cancelled timer would have been due
C11_Witness ==
    /\ ended
    /\ \E i \in 1..Len(items) : now - items[i].EnqueueTime > options.TransTimeoutMS
    /\ now >= options.TransTimeoutPollingIntervalMS

Idle == Len(items) = 0 /\ executing = NullItem

AllReachedOutcome == \A id \in 1..nextId : outcomes[id] # << >>

CallbackCount(id) == Len(SelectSeq(outcomes[id], LAMBDA o : o.cb))

\* C13: the completion callback of an item is never invoked a second time,
\* and it has been invoked once when the item, accepted by transact, has
\* left the queue and the executing slot with an outcome.
C13_CallbackOnce ==
    \A id \in Ids :
       /\ CallbackCount(id) <= 1
       /\ (outcomes[id] # << >> /\ outcomes[id][1].cb) =>
             /\ CallbackCount(id) = 1
             /\ ~Queued(id)
             /\ executing.Id # id

\* the notifications of a log that name the id
Naming(lg, id) == SelectSeq(lg, LAMBDA e : \E k \in 1..Len(e.ids) : e.ids[k] = id)

\* the outcome a settlement publishes for the item
SettleOutcome(item, outcome) ==
    [ev |-> IF outcome.ok THEN "transaction-success" ELSE "transaction-error",
     val |-> outcome.val, cb |-> item.cb]

\* C14: while an item is executing, abort with its id returns false, and
\* abort, abortAll, end() and the timer callback leave the executing slot,
\* the pending execution and the item's outcomes as they are and publish
\* nothing that names the item; no item that began executing ever gets a
\* timeout or aborted error; and when its execution settles, however late,
\* the one outcome published for it is the payload's own.
C14_NoPreemption ==
    /\ Busy(State) =>
          \A a \in {abort(State, executing.Id)} :
             /\ a.ret = FALSE
             /\ \A after \in {a.s, abortAll(State), end(State),
                               PollingTimeoutFunction(State)} :
                   /\ after.executing = executing
                   /\ after.inflight = inflight
                   /\ after.started = started
                   /\ after.outcomes[executing.Id] = outcomes[executing.Id]
                   /\ Naming(after.log, executing.Id) = << >>
    /\ \A id \in StartedIds : ~Removed(id)
    /\ \A item \in inflight :
          /\ outcomes[item.Id] = << >>
          /\ \A outcome \in Outcomes :
                settle(State, item, outcome).outcomes[item.Id]
                   = << SettleOutcome(item, outcome) >>

\* the first item has been executing for longer than the timeout while the
\* sweep evicted the second and the third was aborted
C14_Witness ==
    /\ executing.Id = 1
    /\ executing \in inflight
    /\ now - executing.EnqueueTime > options.TransTimeoutMS
    /\ \E k \in 1..Len(outcomes[2]) : outcomes[2][k].val = "timeout"
    /\ \E k \in 1..Len(outcomes[3]) : outcomes[3][k].val = "aborted"

\* C15: abortAll on a non-empty queue leaves the queue empty and, for every
\* item that was queued, in queue order, publishes one transaction-error with
\* the aborted error and invokes the item's callback, if it has one, with
\* that error; on an empty queue it changes nothing and publishes nothing.
C15_AbortAll ==
    \A r \in {abortAll(State)} :
        IF Len(items) = 0
        THEN r = State
        ELSE /\ r.items = << >>
             /\ Emitted(r.log, "processor", "transaction-error")
                   = [k \in 1..Len(items) |->
                        Event("processor", "transaction-error", <<items[k].Id>>, "aborted")]
             /\ \A id \in Ids :
                   r.outcomes[id] =
                      IF Queued(id)
                      THEN Append(outcomes[id],
                                  ErrorOutcome(CHOOSE it \in {items[k] : k \in 1..Len(items)} :
                                                  it.Id = id, "aborted"))
                      ELSE outcomes[id]
             /\ ClearLog([r EXCEPT !.items = items, !.outcomes = outcomes]) = State

\* the queue is empty after its two items, one of them with a callback, got
\* the aborted error while another item was executing, and the processor is
\* still open with its timer pending
C15_Witness ==
    /\ Len(items) = 0
    /\ executing.Id = 1
    /\ queueOpen
    /\ timerArmed
    /\ \A id \in {2, 3} : outcomes[id] = << ErrorOutcome([Id |-> id, EnqueueTime |-> 0, cb |-> id = 2], "aborted") >>

\* the ways in which the promise returned by execute() may be rejected
Failures == {o \in PayloadOutcomes : ~o.ok}

\* C16: when an execution settles with failure the item leaves the executing
\* slot and, if the queue is not empty and Stopped is false, the head of the
\* queue is dequeued, takes the slot and begins executing, otherwise the slot
\* stays empty and the queue as it is; the head begins executing in the same
\* way after a success, and with payloads that return a promise the two
\* settlements leave the processor in the same state but for the outcome.
C16_FailureNotFatal ==
    \A item \in inflight, thr \in SUBSET PayIds, failure \in Failures :
       LET s == StateThrowing(thr)
           f == settle(s, item, failure)
           g == settle(s, item, [ok |-> TRUE, val |-> "result"])
           go == Len(items) > 0 /\ ~stopped
           HeadBegins(r) ==
               /\ Len(r.started) > Len(started)
               /\ SubSeq(r.started, 1, Len(started) + 1) = Append(started, Head(items).Id)
       IN  /\ item = executing
           /\ f.executing # item
           /\ item \notin f.inflight
           /\ f.outcomes[item.Id] = << ErrorOutcome(item, failure.val) >>
           /\ IF go
              THEN /\ f.executing = Head(items)
                   /\ f.items = Tail(items)
                   /\ f.started = Append(started, Head(items).Id)
                   /\ HeadBegins(g)
              ELSE /\ f.executing = NullItem
                   /\ f.items = items
                   /\ f.started = started
                   /\ g.executing = NullItem
                   /\ g.started = started
           /\ thr = {} =>
                 ClearLog([f EXCEPT !.outcomes = outcomes])
                    = ClearLog([g EXCEPT !.outcomes = outcomes])

\* the first item failed and the second, queued behind it, is executing
C16_Witness ==
    /\ outcomes[1] = << [ev |-> "transaction-error", val |-> "failure", cb |-> FALSE] >>
    /\ started = <<1, 2>>
    /\ executing.Id = 2
    /\ executing \in inflight
    /\ Len(items) = 1

\* C17: the promise of transact is settled by the first invocation of the
\* item's callback; when that follows the payload's success with r the
\* promise is resolved with r, and when it follows the payload's failure
\* with e the promise is rejected with e, whatever e is.
C17_PassThrough ==
    \A id \in PayIds :
       (outcomes[id] # << >> /\ outcomes[id][1].cb) =>
          LET o == outcomes[id][1]
          IN  TransactResult(o) =
                 [state |-> IF o.ev = "transaction-success" THEN "resolved" ELSE "rejected",
                  val |-> o.val]

\* C18: setting Open to either value changes the Open flag and nothing else
\* (queue, executing slot, Stopped, timer and outcomes stay as they are) and
\* publishes one change when the value differs and nothing otherwise; and a
\* settlement or a resume after the setting dispatches the head of the queue
\* exactly as it would have without it.
C18_OpenOnly ==
    LET Same(a, b) == ClearLog([a EXCEPT !.queueOpen = queueOpen]) = ClearLog(b)
    IN  /\ \A value \in BOOLEAN :
              \A r \in {setOpen(State, value)} :
                 /\ r.queueOpen = value
                 /\ r.log = IF value # queueOpen
                            THEN << Event("processor", "change", << >>, "none") >>
                            ELSE << >>
                 /\ Same(r, State)
        /\ \A closed \in {ClearLog(setOpen(State, FALSE))} :
              /\ \A item \in inflight, outcome \in Outcomes :
                    \A r \in {settle(closed, item, outcome)} :
                       /\ Same(r, settle(State, item, outcome))
                       /\ (Len(items) > 0 /\ ~stopped) => r.executing = Head(items)
              /\ \A r \in {setStopped(closed, FALSE)} :
                    /\ Same(r, setStopped(State, FALSE))
                    /\ (Len(items) > 0 /\ ~Busy(State) /\ stopped) =>
                          r.executing = Head(items)

\* intake is closed but the processor was not shut down: the second item
\* is executing after the first, the third is still queued and unsignalled,
\* and the timer is pending
C18_Witness ==
    /\ ~queueOpen
    /\ ~ended
    /\ timerArmed
    /\ nextId = 3
    /\ started = <<1, 2>>
    /\ executing.Id = 2
    /\ IdsOf(items) = <<3>>
    /\ outcomes[3] = << >>

\* the queued items the sweep has to evict now
Expired(it) == now - it.EnqueueTime > options.TransTimeoutMS

\* C19: one sweep takes out of the queue exactly the items whose age is
\* above the timeout, wherever they sit, and leaves the others in their
\* order; each evicted item, and no other, gets one timeout error.
C19_SweepExact ==
    LET r == removeTimeoutTransactions(State, options.TransTimeoutMS)
        p == PollingTimeoutFunction(State)
    IN  /\ r.items = SelectSeq(items, LAMBDA it : ~Expired(it))
        /\ p.items = r.items
        /\ p.outcomes = r.outcomes
        /\ \A k \in 1..Len(items) :
              r.outcomes[items[k].Id] =
                 IF Expired(items[k])
                 THEN Append(outcomes[items[k].Id], ErrorOutcome(items[k], "timeout"))
                 ELSE outcomes[items[k].Id]
        /\ \A id \in Ids : ~Queued(id) => r.outcomes[id] = outcomes[id]

\* the sweep evicted the second of three items and left the first, which had
\* not outlived the timeout, and the third in the queue
C19_Witness ==
    /\ IdsOf(items) = <<1, 3>>
    /\ outcomes[2] = << ErrorOutcome(NullItem, "timeout") >>
    /\ outcomes[1] = << >>
    /\ outcomes[3] = << >>
    /\ timerDue > now

\* C20: a sweep that evicts k >= 1 items publishes one transactions-timeout
\* notification, which names exactly those k items, then their k errors and
\* then one change of the queue (re-published once by the processor), and
\* the listeners of each of these already find the queue without any of the
\* k items; a sweep in which no item qualifies leaves the state as it is and
\* publishes nothing.
C20_Batched ==
    LET r == removeTimeoutTransactions(State, options.TransTimeoutMS)
        evicted == {it.Id : it \in {items[k] : k \in {j \in 1..Len(items) : Expired(items[j])}}}
        k == Cardinality(evicted)
        batch == Emitted(r.log, "queue", "transactions-timeout")
    IN  IF k = 0
        THEN r = State
        ELSE /\ Len(batch) = 1
             /\ r.log[1] = batch[1]
             /\ Len(batch[1].ids) = k
             /\ {batch[1].ids[j] : j \in 1..k} = evicted
             /\ Len(Emitted(r.log, "queue", "change")) = 1
             /\ Len(Emitted(r.log, "processor", "change")) = 1
             /\ Len(Emitted(r.log, "processor", "transaction-error")) = k
             /\ Len(r.log) = k + 3
             /\ r.log[k + 2].src = "queue"
             /\ \A j \in 1..Len(r.seen) :
                   r.seen[j].items = IdsOf(SelectSeq(items, LAMBDA it : ~Expired(it)))

\* two of three items got the timeout error and the one between them, which
\* had not outlived the timeout, is alone in the queue
C20_Witness ==
    /\ IdsOf(items) = <<2>>
    /\ outcomes[1] = << ErrorOutcome(NullItem, "timeout") >>
    /\ outcomes[3] = << ErrorOutcome(NullItem, "timeout") >>
    /\ outcomes[2] = << >>

\* C21: at most one timer of the sweep is pending in every reachable state,
\* and exactly one until end() is called; the timer callback first publishes
\* polling-transactions, then runs the eviction, and arms the next timer only
\* after both: no timer is pending while any notification of the sweep is
\* published, so no second sweep can start inside a running one.
C21_SweepScheduling ==
    /\ pending <= 1
    /\ ~ended => pending = 1 /\ timerArmed
    /\ (timerArmed /\ now >= timerDue) =>
          \A r \in {PollingTimeoutFunction(State)} :
             /\ r.log[1] = Event("processor", "polling-transactions", << >>, "none")
             /\ Len(Emitted(r.log, "processor", "polling-transactions")) = 1
             /\ r.items = SelectSeq(items, LAMBDA it : ~Expired(it))
             /\ \A k \in 1..Len(r.seen) : r.seen[k].pending = 0
             /\ r.pending = 1
             /\ r.timerArmed
             /\ r.timerDue = now + options.TransTimeoutPollingIntervalMS

\* a sweep has evicted an item and armed the next timer, one polling interval
\* after the time of the sweep
C21_Witness ==
    /\ \E id \in Ids : outcomes[id] = << ErrorOutcome(NullItem, "timeout") >>
    /\ pending = 1
    /\ timerDue = now + options.TransTimeoutPollingIntervalMS
    /\ now > 0
    /\ ~ended

\* C24: an item taken out of the queue by a sweep, abort, abortAll or end is
\* gone for good: in every later state it is not in the queue, it is not and
\* never was in the executing slot, no execute() of it was started or is
\* pending, and the timeout or aborted error is the only outcome it ever got
\* (no transaction-success, no second error).
C24_Terminal ==
    \A id \in Ids :
       Removed(id) =>
          /\ ~Queued(id)
          /\ executing.Id # id
          /\ \A k \in 1..Len(started) : started[k] # id
          /\ \A item \in inflight : item.Id # id
          /\ Len(outcomes[id]) = 1
          /\ outcomes[id][1].ev = "transaction-error"

\* item 1 was aborted while waiting; afterwards item 2 was dispatched and its
\* execution has succeeded
C24_Witness ==
    /\ outcomes[1] = << ErrorOutcome(NullItem, "aborted") >>
    /\ started = <<2>>
    /\ Settled(2)
    /\ outcomes[2][1].ev = "transaction-success"

\* C25: the queue never holds two items with the same Id, the item in the
\* executing slot is not in the queue, no item whose execution has begun is
\* in the queue, and execute() is called at most once for each item.
C25_Ownership ==
    /\ \A i, j \in 1..Len(items) : items[i].Id = items[j].Id => i = j
    /\ Busy(State) => ~Queued(executing.Id)
    /\ \A id \in StartedIds : ~Queued(id)
    /\ \A i, j \in 1..Len(started) : started[i] = started[j] => i = j
    /\ \A item \in inflight : item.Id \in StartedIds

\* the first item has settled, the second is executing and the third is at
\* the head of the queue
C25_Witness ==
    /\ started = <<1, 2>>
    /\ Settled(1)
    /\ executing.Id = 2
    /\ Len(items) >= 1
    /\ IdsOf(items)[1] = 3

\* C26: an item whose execution began has at most one outcome, and the
\* settlement of its execute() promise publishes exactly one notification for
\* it: transaction-success with the result if the promise was fulfilled,
\* transaction-error with the reason if it was rejected, never both.
C26_OneOutcome ==
    /\ \A id \in StartedIds : Len(outcomes[id]) <= 1
    /\ \A item \in inflight, outcome \in PayloadOutcomes, thr \in SUBSET PayIds :
          \A r \in {settle(StateThrowing(thr), item, outcome)} :
             /\ r.outcomes[item.Id] = << SettleOutcome(item, outcome) >>
             /\ Len(Naming(r.log, item.Id)) = 1

\* the item of the queue with the id
QueuedItem(id) == CHOOSE it \in {items[k] : k \in 1..Len(items)} : it.Id = id

\* r is the state after an operation: each item the operation took out of the
\* queue got one transaction-error, carrying its id and the error kind, and
\* its completion callback, if any, the same error; no other item got any
RemovedWith(r, kind) ==
    \A id \in Ids :
       IF Queued(id) /\ (\A k \in 1..Len(r.items) : r.items[k].Id # id)
       THEN /\ Naming(Emitted(r.log, "processor", "transaction-error"), id)
                  = << Event("processor", "transaction-error", <<id>>, kind) >>
            /\ r.outcomes[id] = Append(outcomes[id], ErrorOutcome(QueuedItem(id), kind))
       ELSE /\ r.outcomes[id] = outcomes[id]
            /\ Naming(Emitted(r.log, "processor", "transaction-error"), id) = << >>

\* C27: the items a sweep evicts get the error timeout, the items abort,
\* abortAll and end() remove get the error aborted, never the other kind; for
\* each such item exactly one transaction-error is published, carrying its id
\* and the error its completion callback receives.
C27_ErrorKind ==
    /\ \A r \in {PollingTimeoutFunction(State)} : RemovedWith(r, "timeout")
    /\ \A r \in {abortAll(State), end(State)} : RemovedWith(r, "aborted")
    /\ \A id \in 1..nextId : \A r \in {abort(State, id).s} : RemovedWith(r, "aborted")

\* one item was evicted by a sweep and got the timeout error, another was
\* removed by abort, abortAll or end() and its callback got the aborted error
C27_Witness ==
    \E id1, id2 \in Ids :
       /\ outcomes[id1] = << ErrorOutcome(NullItem, "timeout") >>
       /\ outcomes[id2] = << [ErrorOutcome(NullItem, "aborted") EXCEPT !.cb = TRUE] >>

\* the operation has begun an execution
Begins(r) == Len(r.started) > Len(started)

\* C28: in every state between two operations a queue that is not empty
\* means Busy or Stopped; a dispatch attempt, in the state as it is, with
\* Stopped flipped or with the slot emptied, begins an execution exactly if
\* it finds the processor not Busy, not Stopped and the queue not empty; and
\* the attempt is made after every enqueue, every settlement and every change
\* of Stopped from true to false: each of them begins an execution exactly
\* if the attempt it makes finds these three conditions.
C28_NoIdleBacklog ==
    /\ items # << >> => Busy(State) \/ stopped
    /\ \A s \in {State, [State EXCEPT !.stopped = ~stopped],
                  [State EXCEPT !.executing = NullItem, !.inflight = {}]} :
          \A r \in {executeTransactionIfNecessary(s)} :
             /\ Len(r.started) > Len(s.started)
                   <=> (~Busy(s) /\ ~s.stopped /\ s.items # << >>)
             /\ Len(r.started) > Len(s.started) =>
                   /\ r.executing = Head(s.items)
                   /\ r.items = Tail(s.items)
             /\ Len(r.started) = Len(s.started) => r = s
    /\ \A r \in {submit(State, nextId + 1).s, transact(State, nextId + 1).s} :
          /\ Begins(r) <=> (queueOpen /\ ~Busy(State) /\ ~stopped)
          /\ r.items # << >> => Busy(r) \/ r.stopped
    /\ \A item \in inflight, outcome \in Outcomes :
          \A r \in {settle(State, item, outcome)} :
             /\ Begins(r) <=> (~stopped /\ items # << >>)
             /\ r.items # << >> => Busy(r) \/ r.stopped
    /\ \A r \in {setStopped(State, FALSE)} :
          /\ Begins(r) <=> (stopped /\ ~Busy(State) /\ items # << >>)
          /\ r.items # << >> => Busy(r)

\* a backlog with its dispatcher at work: Stopped is false, the first item is
\* executing, and the second, enqueued at the same time, waits for the
\* settlement that will dispatch it
C28_Witness ==
    /\ ~stopped
    /\ executing.Id = 1
    /\ IdsOf(items) = <<2>>
    /\ executing.EnqueueTime < now
    /\ items[1].EnqueueTime = executing.EnqueueTime

\* the notification a settlement publishes for the item
SettleEvent(item, outcome) ==
    IF outcome.ok
    THEN Event("processor", "transaction-success", <<item.Id>>, "none")
    ELSE Event("processor", "transaction-error", <<item.Id>>, outcome.val)

\* the notifications published from inside the listener of the settlement
\* notification: those of an accepted submission (enqueue, submitted, and the
\* change of the queue with its re-publication), the error of a refused one
Inside(op) == IF op = "none" THEN 0 ELSE IF queueOpen THEN 4 ELSE 1

\* C22: a settlement first publishes transaction-success or transaction-error
\* for the item, then invokes its completion callback, then empties the
\* executing slot and only then attempts the next dispatch; the listeners of
\* the notification and the callback find the item in the slot, and an item
\* submitted by such a listener is appended to the queue behind the items
\* already waiting and is not dispatched before the slot has been emptied.
C22_SettlementOrder ==
    \A item \in inflight, outcome \in Outcomes, op \in {"none", "submit", "transact"} :
       (nextId + 1 \in Ids) =>
          \A r \in {settle(Listening([ev |-> SettleEvent(item, outcome).ev, op |-> op]),
                           item, outcome)} :
             \A n \in {1 + Inside(op)} :
                /\ r.log[1] = SettleEvent(item, outcome)
                /\ \A k \in 1..n : r.seen[k].slot = item.Id
                /\ r.calls = IF item.cb
                             THEN << [id |-> item.Id, slot |-> item.Id, at |-> n] >>
                             ELSE << >>
                /\ r.log[n + 1] = Event("processor", "change", << >>, "none")
                /\ r.seen[n + 1].slot = 0
                /\ r.seen[n + 1].items =
                      IdsOf(items) \o (IF op # "none" /\ queueOpen THEN <<nextId + 1>> ELSE << >>)
                /\ r.started =
                      IF ~stopped /\ r.seen[n + 1].items # << >>
                      THEN Append(started, r.seen[n + 1].items[1])
                      ELSE started
                /\ Len(Emitted(r.log, "processor", "executing-transaction")) <= 1
                /\ \A k \in 1..Len(r.log) :
                      r.log[k].ev = "executing-transaction" => k > n + 1

\* the first item, accepted by transact, is executing with an item waiting
\* behind it, intake open and an id left: the listener of its settlement
\* notification can submit a third
C22_Witness ==
    /\ executing.Id = 1
    /\ executing.cb
    /\ executing \in inflight
    /\ Len(items) >= 1
    /\ queueOpen
    /\ nextId < ReMaxSubmit

\* the notifications of the processor in a log, without those of the queue
ProcessorLog(lg) == SelectSeq(lg, LAMBDA e : e.src = "processor")

\* in the log, the processor publishes every notification ev before every change
BeforeChange(lg, ev) ==
    \A p \in {ProcessorLog(lg)} :
       \A i, j \in 1..Len(p) : (p[i].ev = ev /\ p[j].ev = "change") => i < j

\* the states in which a dispatch attempt finds an item to dispatch: the
\* state as it is, or as the Stopped setter leaves it for the attempt
Dispatching ==
    {s \in {State, [State EXCEPT !.stopped = FALSE]} :
        ~Busy(s) /\ ~s.stopped /\ s.items # << >>}

\* the order of the notifications of an enqueue, a settlement, a sweep, an
\* abort and an abortAll: the structural notification before every change
StructuralFirst ==
    /\ \A r \in {submit(State, nextId + 1).s, transact(State, nextId + 1).s} :
          /\ queueOpen => Len(Emitted(r.log, "processor", "submitted")) = 1
          /\ BeforeChange(r.log, "submitted")
          /\ (queueOpen /\ (Busy(State) \/ stopped)) =>
                 \A p \in {ProcessorLog(r.log)} :
                    /\ Len(p) = 2
                    /\ p[1].ev = "submitted"
                    /\ p[2].ev = "change"
    /\ \A item \in inflight, outcome \in Outcomes :
          \A r \in {settle(State, item, outcome)} :
             /\ ProcessorLog(r.log)[1] = SettleEvent(item, outcome)
             /\ ProcessorLog(r.log)[2].ev = "change"
             /\ BeforeChange(r.log, SettleEvent(item, outcome).ev)
    /\ \A r \in {removeTimeoutTransactions(State, options.TransTimeoutMS), abortAll(State)} :
          /\ BeforeChange(r.log, "transaction-error")
          /\ r.items # items =>
                /\ Len(Emitted(r.log, "processor", "change")) = 1
                /\ Len(Emitted(r.log, "processor", "transaction-error"))
                      = Len(items) - Len(r.items)
    /\ \A id \in 1..nextId :
          \A r \in {abort(State, id)} :
             /\ BeforeChange(r.s.log, "transaction-error")
             /\ r.ret =>
                   \A p \in {ProcessorLog(r.s.log)} :
                      /\ Len(p) = 2
                      /\ p[1] = Event("processor", "transaction-error", <<id>>, "aborted")
                      /\ p[2].ev = "change"

\* C23 as stated: in every operation, the dispatch of an item and end()
\* included, the structural notification is published before each change
\* notification of the operation.
C23_Original ==
    /\ StructuralFirst
    /\ \A s \in Dispatching :
          BeforeChange(executeTransactionIfNecessary(s).log, "executing-transaction")
    /\ BeforeChange(end(State).log, "transaction-error")

\* C23: the processor publishes submitted before the change of an enqueue,
\* transaction-success or transaction-error before the change of a
\* settlement, and the transaction-errors of a sweep, an abort and an
\* abortAll before their change; the dispatch of an item publishes two
\* changes (the queue, the executing slot) and then executing-transaction;
\* end() publishes the change of closing intake first, then the
\* transaction-errors of the items it aborts and then the change of the queue.
C23_NotificationOrder ==
    /\ StructuralFirst
    /\ \A s \in Dispatching :
          ProcessorLog(executeTransactionIfNecessary(s).log)
             = << Event("processor", "change", << >>, "none"),
                  Event("processor", "change", << >>, "none"),
                  Event("processor", "executing-transaction", <<Head(s.items).Id>>, "none") >>
    /\ \A p \in {ProcessorLog(end(State).log)} :
          /\ queueOpen => BeforeChange(Tail(p), "transaction-error")
          /\ (queueOpen /\ items # << >>) =>
                /\ Len(p) = Len(items) + 2
                /\ p[1].ev = "change"
                /\ \A k \in 1..Len(items) :
                      p[k + 1] = Event("processor", "transaction-error",
                                       <<items[k].Id>>, "aborted")
                /\ p[Len(p)].ev = "change"
          /\ ~queueOpen => BeforeChange(p, "transaction-error")

\* after a settlement the processor is open, stopped and idle with an item
\* waiting: a dispatch attempt with Stopped false would dispatch it, end()
\* would close intake and abort it
C23_Witness ==
    /\ queueOpen
    /\ stopped
    /\ ~Busy(State)
    /\ items # << >>
    /\ \E id \in Ids : Settled(id)

\* C29: whatever a listener calls from inside a notification, at most one
\* execution is pending, and the item of a pending execution is the item in
\* the executing slot: no second execution begins and the slot of an item
\* in execution is not overwritten.
C29_ReentrantDispatch ==
    /\ Cardinality(inflight) <= 1
    /\ \A item \in inflight : executing = item

\* C30: once end() has been called, from a listener inside a sweep as from
\* anywhere else, no timer of the sweep is pending after the operation, so
\* that no further sweep fires.
C30_EndInsideSweep ==
    ended => pending = 0 /\ ~timerArmed

\* C33: a payload whose execute() throws instead of returning a promise does
\* not block the dispatcher: whatever the payloads of the queued items do,
\* after a dispatch attempt made by submit, transact or Stopped = false no
\* exception leaves the call, the slot holds only an item whose promise is
\* pending, and every item whose execute() was called is either pending or
\* has been failed or settled.
C33_SyncThrow ==
    /\ Busy(State) => executing \in inflight
    /\ \A id \in StartedIds : (\E item \in inflight : item.Id = id) \/ outcomes[id] # << >>
    /\ \A thr \in SUBSET PayIds :
          \A r \in {submit(StateThrowing(thr), nextId + 1).s,
                     setStopped(StateThrowing(thr), FALSE)} :
             /\ ~r.thrown
             /\ Busy(r) => r.executing \in r.inflight

\* C34: the items evicted by one sweep are named in the transactions-timeout
\* notification, and get their timeout errors, newest first (the reverse of
\* their order in the queue), whereas the items removed by abortAll or by
\* end() get their aborted errors oldest first (in their order in the queue).
C34_BatchOrder ==
    LET exp == SelectSeq(items, Expired)
        k == Len(exp)
        n == Len(items)
    IN  /\ \A r \in {removeTimeoutTransactions(State, options.TransTimeoutMS)} :
              k > 0 =>
                 /\ Emitted(r.log, "queue", "transactions-timeout")
                       = << Event("queue", "transactions-timeout",
                                  [j \in 1..k |-> exp[k + 1 - j].Id], "none") >>
                 /\ Emitted(r.log, "processor", "transaction-error")
                       = [j \in 1..k |->
                            Event("processor", "transaction-error",
                                  <<exp[k + 1 - j].Id>>, "timeout")]
        /\ \A r \in {abortAll(State), end(State)} :
              n > 0 =>
                 Emitted(r.log, "processor", "transaction-error")
                    = [j \in 1..n |->
                         Event("processor", "transaction-error", <<items[j].Id>>, "aborted")]

\* the queue is empty after each of its three items got the timeout error,
\* and the clock has not gone past the first sweep's date, so that one sweep
\* evicted the three
C34_Witness ==
    /\ items = << >>
    /\ nextId = 3
    /\ \A id \in 1..3 : outcomes[id] = << ErrorOutcome(NullItem, "timeout") >>
    /\ now <= 1

\* C32: the sweep does not look at Open, Stopped or Busy: while a timer is
\* pending, its callback takes every queued item older than the timeout out
\* of the queue and fails it with timeout, leaves the younger ones, the slot
\* and both flags as they are and leaves one timer pending again, whether
\* intake is closed, dequeuing is paused or an item is executing; and setting
\* Open or Stopped, to either value, leaves the timer's handle, its date and
\* the number of pending timers as they are.
C32_SweepIndependent ==
    /\ \A value \in BOOLEAN :
          \A r \in {setOpen(State, value), setStopped(State, value)} :
             /\ r.timerArmed = timerArmed
             /\ r.timerDue = timerDue
             /\ r.pending = pending
    /\ pending > 0 =>
          \A r \in {PollingTimeoutFunction(State)} :
             /\ r.items = SelectSeq(items, LAMBDA it : ~Expired(it))
             /\ \A k \in 1..Len(items) :
                   r.outcomes[items[k].Id] =
                      IF Expired(items[k])
                      THEN Append(outcomes[items[k].Id], ErrorOutcome(items[k], "timeout"))
                      ELSE outcomes[items[k].Id]
             /\ r.queueOpen = queueOpen
             /\ r.stopped = stopped
             /\ r.executing = executing
             /\ r.pending = pending

\* intake is closed, dequeuing is paused and the first item is executing; the
\* second item, which was queued behind it, has got the timeout error from
\* the sweep that has just run, and the next sweep is pending
C32_Witness ==
    /\ ~queueOpen
    /\ stopped
    /\ executing.Id = 1
    /\ executing \in inflight
    /\ items = << >>
    /\ outcomes[2] = << ErrorOutcome(NullItem, "timeout") >>
    /\ pending = 1
    /\ timerDue = now + options.TransTimeoutPollingIntervalMS

\* C31: every accepted item eventually has exactly one outcome (its result,
\* its payload's failure, timeout or aborted) and keeps exactly that one,
\* when every pending promise settles and the sweep keeps firing, also while
\* Stopped stays true and while submissions go on.
C31_Terminal ==
    \A id \in 1..LiveMaxSubmit :
       [](id <= nextId => <>[](Len(outcomes[id]) = 1))

====
